---------------------------- MODULE Spec2Model ----------------------------
(***************************************************************************)
(* Model of the ARM Cortex-M System Control Block fault-status interface   *)
(* of include/arch/arm/cortex_m/scb.h (ARMv7-M branch).                     *)
(*                                                                         *)
(* A register word is modelled as the set of the positions of its 1 bits   *)
(* (a bit vector), so that the full 32-bit width of HFSR and CFSR is kept.  *)
(* Values that the C code handles as integers (store operands, sub-register *)
(* reads, return values) are integers; WordOf and SubReg convert between both.*)
(***************************************************************************)
EXTENDS Integers, FiniteSets, Sequences, TLC

VARIABLES
    hfsr,     \* __scs.scb.hfsr       : set of set bit positions, 0..31
    cfsr,     \* __scs.scb.cfsr       : set of set bit positions, 0..31
    mmfar,    \* __scs.scb.mmfar      : 32-bit address
    bfar,     \* __scs.scb.bfar       : 32-bit address
    op,       \* the last operation that ran (a function name, or a hardware event)
    ret,      \* the value the last operation returned (0 for void)
    nfaults   \* number of hardware fault events signalled so far

vars == <<hfsr, cfsr, mmfar, bfar, op, ret, nfaults>>

(***************************************************************************)
(* Bounds                                                                  *)
(***************************************************************************)
\* Hardware fault events signalled in one behaviour.
MaxFaults == 2

\* Addresses a faulting access can have: SRAM 0x20001000 and flash 0x08000004.
FaultAddrs == {536875008, 134217732}

(***************************************************************************)
(* Register layout (arch/arm/cortex_m/scs.h, ARMv7-M ARM B3.2)              *)
(***************************************************************************)
\* HFSR bits
VECTTBL == 1
FORCED == 30
DEBUGEVT == 31
HfsrBits == {VECTTBL, FORCED, DEBUGEVT}

\* position and width of the three sub-registers inside the CFSR word
MMFSR_POS == 0
MMFSR_WIDTH == 8
BFSR_POS == 8
BFSR_WIDTH == 8
UFSR_POS == 16
UFSR_WIDTH == 16
HFSR_WIDTH == 32

\* MMFSR bits
IACCVIOL == 0
DACCVIOL == 1
MUNSTKERR == 3
MSTKERR == 4
MMARVALID == 7
MmfsrBits == {IACCVIOL, DACCVIOL, MUNSTKERR, MSTKERR, MMARVALID}

\* BFSR bits
IBUSERR == 0
PRECISERR == 1
IMPRECISERR == 2
UNSTKERR == 3
STKERR == 4
BFARVALID == 7
BfsrBits == {IBUSERR, PRECISERR, IMPRECISERR, UNSTKERR, STKERR, BFARVALID}

\* UFSR bits
UNDEFINSTR == 0
INVSTATE == 1
INVPC == 2
NOCP == 3
UNALIGNED == 8
DIVBYZERO == 9
UfsrBits == {UNDEFINSTR, INVSTATE, INVPC, NOCP, UNALIGNED, DIVBYZERO}

(***************************************************************************)
(* C and hardware primitives                                               *)
(***************************************************************************)
\* bit i of the non-negative integer v (by halving: 2^31 is not computed)
RECURSIVE Bit(_, _)
Bit(v, i) == IF i = 0 THEN v % 2 ELSE Bit(v \div 2, i - 1)

\* the bit vector of the integer v truncated to `width` bits
WordOf(v, width) == {i \in 0..(width - 1) : Bit(v, i) = 1}

RECURSIVE SumPow2(_)
SumPow2(S) ==
    IF S = {} THEN 0
    ELSE LET i == CHOOSE j \in S : TRUE IN (2 ^ i) + SumPow2(S \ {i})

\* the integer read from the sub-register of `width` bits at `pos` of `word`
SubReg(word, pos, width) ==
    SumPow2({i \in 0..(width - 1) : (pos + i) \in word})

\* C's logical negation
LogNot(x) == IF x = 0 THEN 1 ELSE 0

\* read of a one-bit bit-field of a sub-register
BitField(word, pos, bit) == IF (pos + bit) \in word THEN 1 ELSE 0

\* A store of the integer v to the `width`-bit (sub-)register at `pos` of a
\* write-one-to-clear register: every bit written as 1 is cleared, every bit
\* written as 0 keeps its value; bits outside the lanes written are untouched.
W1CStore(word, pos, width, v) ==
    word \ {pos + i : i \in WordOf(v, width)}

\* A C store of the value b to the one-bit bit-field `bit` of a sub-register:
\* the storage unit is read, the field is replaced, and the unit is written
\* back to the (write-one-to-clear) register.
BitFieldStore(word, pos, width, bit, b) ==
    LET old == SubReg(word, pos, width)
        new == old - (Bit(old, bit) * (2 ^ bit)) + (b * (2 ^ bit))
    IN  W1CStore(word, pos, width, new)

(***************************************************************************)
(* Initial state: the fault status registers are clear after reset, the    *)
(* fault address registers hold an unknown value.                          *)
(***************************************************************************)
Init ==
    /\ hfsr = {}
    /\ cfsr = {}
    /\ mmfar \in FaultAddrs
    /\ bfar \in FaultAddrs
    /\ op = "init"
    /\ ret = 0
    /\ nfaults = 0

(***************************************************************************)
(* Hard-fault view                                                         *)
(***************************************************************************)
_ScbHardFaultIsBusErrOnVectorRead == BitField(hfsr, 0, VECTTBL)

_ScbHardFaultAllFaultsReset ==
    /\ hfsr' = W1CStore(hfsr, 0, HFSR_WIDTH, 65535)
    /\ op' = "_ScbHardFaultAllFaultsReset"
    /\ ret' = 65535
    /\ UNCHANGED <<cfsr, mmfar, bfar, nfaults>>

(***************************************************************************)
(* Memory-fault view (MMFSR, byte 0 of CFSR)                               *)
(***************************************************************************)
_ScbIsMemFault == LogNot(LogNot(SubReg(cfsr, MMFSR_POS, MMFSR_WIDTH)))

_ScbMemFaultIsMmfarValid == LogNot(LogNot(BitField(cfsr, MMFSR_POS, MMARVALID)))

_ScbMemFaultMmfarReset ==
    /\ cfsr' = BitFieldStore(cfsr, MMFSR_POS, MMFSR_WIDTH, MMARVALID, 0)
    /\ op' = "_ScbMemFaultMmfarReset"
    /\ ret' = 0
    /\ UNCHANGED <<hfsr, mmfar, bfar, nfaults>>

_ScbMemFaultAllFaultsReset ==
    /\ cfsr' = W1CStore(cfsr, MMFSR_POS, MMFSR_WIDTH, 254)
    /\ op' = "_ScbMemFaultAllFaultsReset"
    /\ ret' = 0
    /\ UNCHANGED <<hfsr, mmfar, bfar, nfaults>>

\* variant: tests the whole sub-register instead of the mstkerr field
_ScbMemFaultIsStacking_WholeByte ==
    LogNot(LogNot(SubReg(cfsr, MMFSR_POS, MMFSR_WIDTH)))

_ScbMemFaultIsStacking == LogNot(LogNot(BitField(cfsr, MMFSR_POS, MSTKERR)))

\* variant: compares the sub-register with the munstkerr mask
_ScbMemFaultIsUnstacking_Exclusive ==
    IF SubReg(cfsr, MMFSR_POS, MMFSR_WIDTH) = 2 ^ MUNSTKERR THEN 1 ELSE 0

_ScbMemFaultIsUnstacking == LogNot(LogNot(BitField(cfsr, MMFSR_POS, MUNSTKERR)))

_ScbMemFaultIsDataAccessViolation ==
    LogNot(LogNot(BitField(cfsr, MMFSR_POS, DACCVIOL)))

_ScbMemFaultIsInstrAccessViolation ==
    LogNot(LogNot(BitField(cfsr, MMFSR_POS, IACCVIOL)))

_ScbMemFaultAddrGet == mmfar

(***************************************************************************)
(* Bus-fault view (BFSR, byte 1 of CFSR)                                   *)
(***************************************************************************)
_ScbIsBusFault == LogNot(LogNot(SubReg(cfsr, BFSR_POS, BFSR_WIDTH)))

_ScbBusFaultIsBfarValid == LogNot(LogNot(BitField(cfsr, BFSR_POS, BFARVALID)))

_ScbBusFaultBfarReset ==
    /\ cfsr' = BitFieldStore(cfsr, BFSR_POS, BFSR_WIDTH, BFARVALID, 0)
    /\ op' = "_ScbBusFaultBfarReset"
    /\ ret' = 0
    /\ UNCHANGED <<hfsr, mmfar, bfar, nfaults>>

_ScbBusFaultAllFaultsReset ==
    /\ cfsr' = W1CStore(cfsr, BFSR_POS, BFSR_WIDTH, 254)
    /\ op' = "_ScbBusFaultAllFaultsReset"
    /\ ret' = 0
    /\ UNCHANGED <<hfsr, mmfar, bfar, nfaults>>

_ScbBusFaultIsStacking == LogNot(LogNot(BitField(cfsr, BFSR_POS, STKERR)))

_ScbBusFaultIsUnstacking == LogNot(LogNot(BitField(cfsr, BFSR_POS, UNSTKERR)))

_ScbBusFaultIsImprecise == LogNot(LogNot(BitField(cfsr, BFSR_POS, IMPRECISERR)))

_ScbBusFaultIsPrecise == LogNot(LogNot(BitField(cfsr, BFSR_POS, PRECISERR)))

_ScbBusFaultIsInstrBusErr == LogNot(LogNot(BitField(cfsr, BFSR_POS, IBUSERR)))

_ScbBusFaultAddrGet == bfar

(***************************************************************************)
(* Usage-fault view (UFSR, upper half-word of CFSR)                        *)
(***************************************************************************)
\* variant: tests the low byte of UFSR only
_ScbIsUsageFault_LowByte == LogNot(LogNot(SubReg(cfsr, UFSR_POS, 8)))

_ScbIsUsageFault == LogNot(LogNot(SubReg(cfsr, UFSR_POS, UFSR_WIDTH)))

_ScbUsageFaultIsDivByZero == LogNot(LogNot(BitField(cfsr, UFSR_POS, DIVBYZERO)))

_ScbUsageFaultIsUnaligned == LogNot(LogNot(BitField(cfsr, UFSR_POS, UNALIGNED)))

_ScbUsageFaultIsNoCp == LogNot(LogNot(BitField(cfsr, UFSR_POS, NOCP)))

_ScbUsageFaultIsInvalidPcLoad == LogNot(LogNot(BitField(cfsr, UFSR_POS, INVPC)))

_ScbUsageFaultIsInvalidState == LogNot(LogNot(BitField(cfsr, UFSR_POS, INVSTATE)))

_ScbUsageFaultIsUndefinedInstr ==
    LogNot(LogNot(BitField(cfsr, UFSR_POS, UNDEFINSTR)))

\* variant: stores the mask to cfsr.val instead of cfsr.byte.ufsr.val
_ScbUsageFaultAllFaultsReset_WholeWord ==
    /\ cfsr' = W1CStore(cfsr, 0, 32, 65535)
    /\ op' = "_ScbUsageFaultAllFaultsReset"
    /\ ret' = 0
    /\ UNCHANGED <<hfsr, mmfar, bfar, nfaults>>

_ScbUsageFaultAllFaultsReset ==
    /\ cfsr' = W1CStore(cfsr, UFSR_POS, UFSR_WIDTH, 65535)
    /\ op' = "_ScbUsageFaultAllFaultsReset"
    /\ ret' = 0
    /\ UNCHANGED <<hfsr, mmfar, bfar, nfaults>>

(***************************************************************************)
(* Calls of the read accessors: the body of each is a single return of a   *)
(* register read.                                                          *)
(***************************************************************************)
HardReads == {"_ScbHardFaultIsBusErrOnVectorRead"}

MemPredicates ==
    {"_ScbIsMemFault", "_ScbMemFaultIsMmfarValid", "_ScbMemFaultIsStacking",
     "_ScbMemFaultIsUnstacking", "_ScbMemFaultIsDataAccessViolation",
     "_ScbMemFaultIsInstrAccessViolation"}

BusPredicates ==
    {"_ScbIsBusFault", "_ScbBusFaultIsBfarValid", "_ScbBusFaultIsStacking",
     "_ScbBusFaultIsUnstacking", "_ScbBusFaultIsImprecise",
     "_ScbBusFaultIsPrecise", "_ScbBusFaultIsInstrBusErr"}

UsagePredicates ==
    {"_ScbIsUsageFault", "_ScbUsageFaultIsDivByZero", "_ScbUsageFaultIsUnaligned",
     "_ScbUsageFaultIsNoCp", "_ScbUsageFaultIsInvalidPcLoad",
     "_ScbUsageFaultIsInvalidState", "_ScbUsageFaultIsUndefinedInstr"}

AddrReads == {"_ScbMemFaultAddrGet", "_ScbBusFaultAddrGet"}

ReadOps ==
    HardReads \cup MemPredicates \cup BusPredicates \cup UsagePredicates
        \cup AddrReads

\* the value the read accessor f returns in the current state
Result(f) ==
    CASE f = "_ScbHardFaultIsBusErrOnVectorRead" -> _ScbHardFaultIsBusErrOnVectorRead
      [] f = "_ScbIsMemFault" -> _ScbIsMemFault
      [] f = "_ScbMemFaultIsMmfarValid" -> _ScbMemFaultIsMmfarValid
      [] f = "_ScbMemFaultIsStacking" -> _ScbMemFaultIsStacking
      [] f = "_ScbMemFaultIsUnstacking" -> _ScbMemFaultIsUnstacking
      [] f = "_ScbMemFaultIsDataAccessViolation" -> _ScbMemFaultIsDataAccessViolation
      [] f = "_ScbMemFaultIsInstrAccessViolation" -> _ScbMemFaultIsInstrAccessViolation
      [] f = "_ScbMemFaultAddrGet" -> _ScbMemFaultAddrGet
      [] f = "_ScbIsBusFault" -> _ScbIsBusFault
      [] f = "_ScbBusFaultIsBfarValid" -> _ScbBusFaultIsBfarValid
      [] f = "_ScbBusFaultIsStacking" -> _ScbBusFaultIsStacking
      [] f = "_ScbBusFaultIsUnstacking" -> _ScbBusFaultIsUnstacking
      [] f = "_ScbBusFaultIsImprecise" -> _ScbBusFaultIsImprecise
      [] f = "_ScbBusFaultIsPrecise" -> _ScbBusFaultIsPrecise
      [] f = "_ScbBusFaultIsInstrBusErr" -> _ScbBusFaultIsInstrBusErr
      [] f = "_ScbBusFaultAddrGet" -> _ScbBusFaultAddrGet
      [] f = "_ScbIsUsageFault" -> _ScbIsUsageFault
      [] f = "_ScbUsageFaultIsDivByZero" -> _ScbUsageFaultIsDivByZero
      [] f = "_ScbUsageFaultIsUnaligned" -> _ScbUsageFaultIsUnaligned
      [] f = "_ScbUsageFaultIsNoCp" -> _ScbUsageFaultIsNoCp
      [] f = "_ScbUsageFaultIsInvalidPcLoad" -> _ScbUsageFaultIsInvalidPcLoad
      [] f = "_ScbUsageFaultIsInvalidState" -> _ScbUsageFaultIsInvalidState
      [] f = "_ScbUsageFaultIsUndefinedInstr" -> _ScbUsageFaultIsUndefinedInstr

\* variant: the accessor writes the memory-fault byte it read back
Read_WriteBack(f) ==
    /\ op' = f
    /\ ret' = Result(f)
    /\ cfsr' = W1CStore(cfsr, MMFSR_POS, MMFSR_WIDTH,
                        SubReg(cfsr, MMFSR_POS, MMFSR_WIDTH))
    /\ UNCHANGED <<hfsr, mmfar, bfar, nfaults>>

Read(f) ==
    /\ op' = f
    /\ ret' = Result(f)
    /\ UNCHANGED <<hfsr, cfsr, mmfar, bfar, nfaults>>

(***************************************************************************)
(* Hardware: a fault event sets the sticky flags of its cause on top of    *)
(* the flags already set, and captures the address where the architecture  *)
(* provides one.                                                           *)
(***************************************************************************)
HwHardFault ==
    /\ nfaults < MaxFaults
    /\ \E b \in HfsrBits : hfsr' = hfsr \cup {b}
    /\ op' = "HwHardFault"
    /\ ret' = 0
    /\ nfaults' = nfaults + 1
    /\ UNCHANGED <<cfsr, mmfar, bfar>>

\* a data access violation captures the faulting address in MMFAR
HwMemFault ==
    /\ nfaults < MaxFaults
    /\ \/ /\ \E b \in {IACCVIOL, MUNSTKERR, MSTKERR} :
                cfsr' = cfsr \cup {MMFSR_POS + b}
          /\ mmfar' = mmfar
       \/ /\ cfsr' = cfsr \cup {MMFSR_POS + DACCVIOL, MMFSR_POS + MMARVALID}
          /\ mmfar' \in FaultAddrs
    /\ op' = "HwMemFault"
    /\ ret' = 0
    /\ nfaults' = nfaults + 1
    /\ UNCHANGED <<hfsr, bfar>>

\* a precise bus error captures the faulting address in BFAR, an imprecise
\* one does not
HwBusFault ==
    /\ nfaults < MaxFaults
    /\ \/ /\ \E b \in {IBUSERR, IMPRECISERR, UNSTKERR, STKERR} :
                cfsr' = cfsr \cup {BFSR_POS + b}
          /\ bfar' = bfar
       \/ /\ cfsr' = cfsr \cup {BFSR_POS + PRECISERR, BFSR_POS + BFARVALID}
          /\ bfar' \in FaultAddrs
    /\ op' = "HwBusFault"
    /\ ret' = 0
    /\ nfaults' = nfaults + 1
    /\ UNCHANGED <<hfsr, mmfar>>

HwUsageFault ==
    /\ nfaults < MaxFaults
    /\ \E b \in UfsrBits : cfsr' = cfsr \cup {UFSR_POS + b}
    /\ op' = "HwUsageFault"
    /\ ret' = 0
    /\ nfaults' = nfaults + 1
    /\ UNCHANGED <<hfsr, mmfar, bfar>>

ReadAny == \E f \in ReadOps : Read(f)

Next ==
    \/ HwHardFault
    \/ HwMemFault
    \/ HwBusFault
    \/ HwUsageFault
    \/ ReadAny
    \/ _ScbHardFaultAllFaultsReset
    \/ _ScbMemFaultMmfarReset
    \/ _ScbMemFaultAllFaultsReset
    \/ _ScbBusFaultBfarReset
    \/ _ScbBusFaultAllFaultsReset
    \/ _ScbUsageFaultAllFaultsReset

Spec == Init /\ [][Next]_vars

(***************************************************************************)
(* Vocabulary of the properties                                            *)
(***************************************************************************)
\* the bits of `word` that lie in the sub-register of `width` bits at `pos`
Lane(word, pos, width) == {i \in word : pos <= i /\ i < pos + width}

HwEvents == {"HwHardFault", "HwMemFault", "HwBusFault", "HwUsageFault"}

MemCausePredicates ==
    {"_ScbMemFaultIsStacking", "_ScbMemFaultIsUnstacking",
     "_ScbMemFaultIsDataAccessViolation", "_ScbMemFaultIsInstrAccessViolation"}

BusCausePredicates ==
    {"_ScbBusFaultIsStacking", "_ScbBusFaultIsUnstacking", "_ScbBusFaultIsImprecise",
     "_ScbBusFaultIsPrecise", "_ScbBusFaultIsInstrBusErr"}

UsageCausePredicates == UsagePredicates \ {"_ScbIsUsageFault"}

Predicates == HardReads \cup MemPredicates \cup BusPredicates \cup UsagePredicates

(***************************************************************************)
(* C1                                                                      *)
(***************************************************************************)
\* C1: right after the resetAll of a view (no fault signalled in between),
\* every predicate of that view returns false.
C1_AllPredicatesFalseAfterResetAll ==
    /\ (op = "_ScbHardFaultAllFaultsReset") => (\A f \in HardReads : Result(f) = 0)
    /\ (op = "_ScbMemFaultAllFaultsReset") => (\A f \in MemPredicates : Result(f) = 0)
    /\ (op = "_ScbBusFaultAllFaultsReset") => (\A f \in BusPredicates : Result(f) = 0)
    /\ (op = "_ScbUsageFaultAllFaultsReset") =>
            (\A f \in UsagePredicates : Result(f) = 0)

(***************************************************************************)
(* C2                                                                      *)
(***************************************************************************)
\* C2: invalidateFaultAddress of the memory-fault or bus-fault view leaves
\* every cause predicate of the same view at the value it had before the call.
C2_InvalidateKeepsCauseFlags ==
    [][ /\ (op' = "_ScbMemFaultMmfarReset") =>
                (\A f \in MemCausePredicates : Result(f)' = Result(f))
        /\ (op' = "_ScbBusFaultBfarReset") =>
                (\A f \in BusCausePredicates : Result(f)' = Result(f)) ]_vars

(***************************************************************************)
(* C3                                                                      *)
(***************************************************************************)
\* C3: from a state whose address-valid flag is set, invalidateFaultAddress
\* leaves a state in which isFaultAddressValid of that view returns false.
C3_InvalidateClearsValidFlag ==
    [][ /\ (op' = "_ScbMemFaultMmfarReset" /\ _ScbMemFaultIsMmfarValid = 1) =>
                (_ScbMemFaultIsMmfarValid' = 0)
        /\ (op' = "_ScbBusFaultBfarReset" /\ _ScbBusFaultIsBfarValid = 1) =>
                (_ScbBusFaultIsBfarValid' = 0) ]_vars

(***************************************************************************)
(* C4                                                                      *)
(***************************************************************************)
\* C4: every memory-fault and bus-fault cause predicate and isFaultAddressValid
\* returns true exactly when its own flag bit is set, whatever the other bits
\* are, and faultAddress returns the address register; in particular MMFSR =
\* 0x90 with MMFAR = 0x20001000 reads as stacking + valid only, and BFSR = 0x04
\* reads as imprecise with no valid address.
C4_PredicateReadsItsOwnBit ==
    /\ (_ScbMemFaultIsStacking = 1) <=> (4 \in cfsr)
    /\ (_ScbMemFaultIsUnstacking = 1) <=> (3 \in cfsr)
    /\ (_ScbMemFaultIsDataAccessViolation = 1) <=> (1 \in cfsr)
    /\ (_ScbMemFaultIsInstrAccessViolation = 1) <=> (0 \in cfsr)
    /\ (_ScbMemFaultIsMmfarValid = 1) <=> (7 \in cfsr)
    /\ (_ScbBusFaultIsStacking = 1) <=> (12 \in cfsr)
    /\ (_ScbBusFaultIsUnstacking = 1) <=> (11 \in cfsr)
    /\ (_ScbBusFaultIsImprecise = 1) <=> (10 \in cfsr)
    /\ (_ScbBusFaultIsPrecise = 1) <=> (9 \in cfsr)
    /\ (_ScbBusFaultIsInstrBusErr = 1) <=> (8 \in cfsr)
    /\ (_ScbBusFaultIsBfarValid = 1) <=> (15 \in cfsr)
    /\ \A f \in MemPredicates \cup BusPredicates : Result(f) \in {0, 1}
    /\ _ScbMemFaultAddrGet = mmfar /\ _ScbBusFaultAddrGet = bfar
    /\ (SubReg(cfsr, 0, 8) = 144 /\ mmfar = 536875008) =>
            /\ _ScbMemFaultIsStacking = 1
            /\ _ScbMemFaultIsUnstacking = 0
            /\ _ScbMemFaultIsDataAccessViolation = 0
            /\ _ScbMemFaultIsInstrAccessViolation = 0
            /\ _ScbMemFaultIsMmfarValid = 1
            /\ _ScbMemFaultAddrGet = 536875008
    /\ (SubReg(cfsr, 8, 8) = 4) =>
            /\ _ScbBusFaultIsImprecise = 1
            /\ _ScbBusFaultIsBfarValid = 0

\* the memory view holds exactly the stacking and the validity bit with the
\* address 0x20001000
C4_Witness ==
    /\ SubReg(cfsr, 0, 8) = 144
    /\ mmfar = 536875008
    /\ _ScbMemFaultIsStacking = 1

(***************************************************************************)
(* C5                                                                      *)
(***************************************************************************)
\* C5: a call of any predicate or address accessor leaves HFSR, CFSR, MMFAR
\* and BFAR unchanged.
C5_ReadsArePure ==
    [][ (op' \in ReadOps) => (hfsr' = hfsr /\ cfsr' = cfsr /\ mmfar' = mmfar
                                /\ bfar' = bfar) ]_vars

\* faultAddress was read while the validity flag is false and a cause flag is set
C5_Witness ==
    /\ op = "_ScbMemFaultAddrGet"
    /\ _ScbMemFaultIsMmfarValid = 0
    /\ _ScbMemFaultIsStacking = 1
    /\ ret = mmfar

(***************************************************************************)
(* C6                                                                      *)
(***************************************************************************)
\* C6: isActive of the memory, bus and usage view returns true exactly when a
\* bit of the view's sub-register is set; for the usage view, exactly when one
\* of its six cause predicates returns true.
C6_IsActiveAggregates ==
    /\ (_ScbIsMemFault = 1) <=> (Lane(cfsr, 0, 8) # {})
    /\ (_ScbIsBusFault = 1) <=> (Lane(cfsr, 8, 8) # {})
    /\ (_ScbIsUsageFault = 1) <=> (Lane(cfsr, 16, 16) # {})
    /\ (_ScbIsUsageFault = 1) <=> (\E f \in UsageCausePredicates : Result(f) = 1)
    /\ {_ScbIsMemFault, _ScbIsBusFault, _ScbIsUsageFault} \subseteq {0, 1}

\* the usage view is active through a flag of the upper byte of UFSR alone
C6_Witness ==
    /\ _ScbIsUsageFault = 1
    /\ _ScbUsageFaultIsDivByZero = 1
    /\ _ScbUsageFaultIsUndefinedInstr = 0
    /\ _ScbIsMemFault = 1

(***************************************************************************)
(* C7                                                                      *)
(***************************************************************************)
\* C7: right after resetAll of the hard-fault view no bit of the 32-bit HFSR
\* is set, and right after resetAll of the usage-fault view no bit of the
\* 16-bit UFSR is set.
C7_ResetAllReturnsToIdle ==
    /\ (op = "_ScbHardFaultAllFaultsReset") => (hfsr = {})
    /\ (op = "_ScbUsageFaultAllFaultsReset") => (Lane(cfsr, 16, 16) = {})

(***************************************************************************)
(* C8                                                                      *)
(***************************************************************************)
\* C8: a resetAll or invalidateFaultAddress of one view leaves the status
\* bits of the other three views and both fault address registers unchanged,
\* so every read accessor of another view returns what it returned before.
C8_ViewsAreIsolated ==
    [][ /\ (op' = "_ScbHardFaultAllFaultsReset") =>
                /\ cfsr' = cfsr /\ mmfar' = mmfar /\ bfar' = bfar
                /\ \A f \in ReadOps \ HardReads : Result(f)' = Result(f)
        /\ (op' \in {"_ScbMemFaultAllFaultsReset", "_ScbMemFaultMmfarReset"}) =>
                /\ hfsr' = hfsr /\ mmfar' = mmfar /\ bfar' = bfar
                /\ Lane(cfsr', 8, 24) = Lane(cfsr, 8, 24)
                /\ \A f \in ReadOps \ MemPredicates : Result(f)' = Result(f)
        /\ (op' \in {"_ScbBusFaultAllFaultsReset", "_ScbBusFaultBfarReset"}) =>
                /\ hfsr' = hfsr /\ mmfar' = mmfar /\ bfar' = bfar
                /\ Lane(cfsr', 0, 8) = Lane(cfsr, 0, 8)
                /\ Lane(cfsr', 16, 16) = Lane(cfsr, 16, 16)
                /\ \A f \in ReadOps \ BusPredicates : Result(f)' = Result(f)
        /\ (op' = "_ScbUsageFaultAllFaultsReset") =>
                /\ hfsr' = hfsr /\ mmfar' = mmfar /\ bfar' = bfar
                /\ Lane(cfsr', 0, 16) = Lane(cfsr, 0, 16)
                /\ \A f \in ReadOps \ UsagePredicates : Result(f)' = Result(f)
      ]_vars

\* the usage view was reset (both faults were signalled, one of them in the
\* usage view, whose flag is gone) while a memory-fault flag stays set
C8_Witness ==
    /\ op = "_ScbUsageFaultAllFaultsReset"
    /\ nfaults = 2
    /\ Cardinality(cfsr) = 1
    /\ hfsr = {}
    /\ _ScbMemFaultIsStacking = 1

(***************************************************************************)
(* C9                                                                      *)
(***************************************************************************)
\* C9: the bus-fault isFaultAddressValid is true only if isPreciseError is true.
C9_ValidOnlyIfPrecise ==
    (_ScbBusFaultIsBfarValid = 1) => (_ScbBusFaultIsPrecise = 1)

(***************************************************************************)
(* C10                                                                     *)
(***************************************************************************)
\* C10: a fault signalled while flags of an earlier fault are still set adds
\* its flags to them: every predicate that returned true before the signal
\* returns true after it, and a signal that sets a new bit of a sub-register
\* of CFSR makes a cause predicate true that was false.
C10_SignalsAccumulate ==
    [][ (op' \in HwEvents) =>
            /\ hfsr \subseteq hfsr' /\ cfsr \subseteq cfsr'
            /\ \A f \in Predicates : (Result(f) = 1) => (Result(f)' = 1)
            /\ (cfsr' # cfsr) =>
                    \E f \in MemCausePredicates \cup BusCausePredicates
                                \cup UsageCausePredicates :
                        Result(f) = 0 /\ Result(f)' = 1
      ]_vars

\* two faults of the memory view were signalled with no clear in between and
\* both cause predicates read true
C10_Witness ==
    /\ op = "HwMemFault"
    /\ nfaults = 2
    /\ _ScbMemFaultIsStacking = 1
    /\ _ScbMemFaultIsInstrAccessViolation = 1
=============================================================================
